---- MODULE Spec2Model ----
(***************************************************************************)
(* Model of webhook_server.py: the /webhook endpoint handle_webhook, run   *)
(* by an asyncio event loop.  Every request is a coroutine; coroutines     *)
(* interleave at their awaits on the exchange client and on asyncio.sleep. *)
(* One action of the model is the code of one request from one such await  *)
(* to the next.  notify_discord swallows its own failures and touches no   *)
(* state of the program, so a call of it is recorded in the step that      *)
(* makes it.                                                               *)
(*                                                                         *)
(* Text is a sequence of one-character strings, so that strip() and        *)
(* upper() are computed.  A float that the code computes by a division is  *)
(* kept as the exact fraction [n, d] in lowest terms.                      *)
(***************************************************************************)
EXTENDS Integers, Sequences, FiniteSets, TLC

\* ---- bounds of the model ------------------------------------------------
MaxReqs == 2          \* concurrent webhook requests
MaxPos  == 1          \* entries in one fetch_positions response

\* ---- program constants --------------------------------------------------
LEVERAGE   == 5       \* os.getenv("LEVERAGE", 5)
SLEEP_SECS == 2       \* asyncio.sleep(2)

Reqs == 1..MaxReqs

None == <<"None">>    \* a text that is None, or whose key is absent
NoNum == <<>>         \* a number that is None, or whose key is absent
Num(x) == <<x>>       \* a number that is present

BUY  == <<"B", "U", "Y">>
SELL == <<"S", "E", "L", "L">>
FLAT == <<"F", "L", "A", "T">>

BTC == <<"B", "T", "C">>
ETH == <<"E", "T", "H">>
DEFAULT_SYMBOL == BTC
Symbols == {BTC, ETH}

TRADINGVIEW_SECRET == <<"k", "e", "y">>

\* ---- text ---------------------------------------------------------------
Upper(c) ==
    CASE c = "a" -> "A" [] c = "b" -> "B" [] c = "e" -> "E" [] c = "f" -> "F"
      [] c = "l" -> "L" [] c = "s" -> "S" [] c = "t" -> "T" [] c = "u" -> "U"
      [] c = "y" -> "Y" [] OTHER -> c

StrUpper(s) == [i \in 1..Len(s) |-> Upper(s[i])]

RECURSIVE LStrip(_)
LStrip(s) == IF s # <<>> /\ Head(s) = " " THEN LStrip(Tail(s)) ELSE s

RECURSIVE RStrip(_)
RStrip(s) ==
    IF s # <<>> /\ s[Len(s)] = " " THEN RStrip(SubSeq(s, 1, Len(s) - 1)) ELSE s

StrStrip(s) == RStrip(LStrip(s))

\* data.get(key, default)
Get(v, default) == IF v = None THEN default ELSE v

\* str(data.get("action", "")).strip().upper()
ParseAction(raw) == StrUpper(StrStrip(Get(raw, <<>>)))

\* ParseSymbol without strip()
ParseSymbolNoStrip(raw) == Get(raw, DEFAULT_SYMBOL)

\* str(data.get("symbol", DEFAULT_SYMBOL)).strip()
ParseSymbol(raw) == StrStrip(Get(raw, DEFAULT_SYMBOL))

\* ---- numbers ------------------------------------------------------------
Abs(x) == IF x < 0 THEN -x ELSE x

RECURSIVE Gcd(_, _)
Gcd(a, b) == IF b = 0 THEN a ELSE Gcd(b, a % b)

\* the fraction n/d (d > 0) in lowest terms
Frac(n, d) ==
    LET g == Gcd(Abs(n), d) IN [n |-> n \div g, d |-> d \div g]

Whole(x) == Frac(x, 1)

\* ---- what the requests and the exchange may carry -----------------------
RawActions ==
    { <<"B", "U", "Y">>, <<"b", "u", "y">>,
      <<" ", "s", "e", "l", "l">>, <<"S", "E", "L", "L", " ">>,
      <<"f", "l", "a", "t">>, <<"F", "L", "A", "T">>,
      <<"H", "O", "L", "D">>, None }

RawSymbols == { <<"B", "T", "C">>, <<" ", "E", "T", "H", " ">>, None }

Secrets == { TRADINGVIEW_SECRET, <<"b", "a", "d">>, None }

\* a request body: not JSON, JSON that is no object, or an object
Payloads ==
    [kind : {"invalid", "array"}, secret : {None}, action : {None}, symbol : {None}]
    \cup
    [kind : {"object"}, secret : Secrets, action : RawActions, symbol : RawSymbols]

\* ticker["last"]
Lasts == {NoNum, Num(0), Num(3)}

\* pos["info"]["position"]["szi"]
SziVals == {NoNum, Num(-3), Num(0), Num(2)}

PosEntries == [symbol : Symbols, szi : SziVals]

RECURSIVE SeqsUpTo(_, _)
SeqsUpTo(S, n) ==
    IF n = 0 THEN {<<>>}
    ELSE LET shorter == SeqsUpTo(S, n - 1)
         IN  shorter \cup {Append(s, x) : s \in {t \in shorter : Len(t) = n - 1}, x \in S}

\* fetch_positions returns a list (an empty one is falsy, as None is)
PosResponses == SeqsUpTo(PosEntries, MaxPos)

\* the "free" fields of a fetch_balance response, in both CCXT styles
FreeVals == {NoNum, Num(0), Num(4)}

BalResponses == [usdcFree : FreeVals, freeUsdc : FreeVals, numeric : BOOLEAN]

\* ---- Python's truthiness and float() on an optional number --------------
Truthy(o) == o # NoNum /\ o[1] # 0

\* a or b
Or(a, b) == IF Truthy(a) THEN a ELSE b

\* float(o or 0.0)
FloatOrZero(o) == IF Truthy(o) THEN o[1] ELSE 0

\* ---- the events a request leaves behind, in order -----------------------
\* a call of the exchange client or of asyncio.sleep; val is the number it
\* returned (the price, the free balance) or was given (the seconds)
Ev(op, ok, val) ==
    [op |-> op, ok |-> ok, val |-> val, side |-> "", amt |-> Whole(0),
     px |-> 0, ro |-> FALSE, txt |-> "", got |-> <<>>]

\* positions = await exchange.fetch_positions([symbol]), and the list it got
PosEv(got) ==
    [op |-> "fetch_positions", ok |-> TRUE, val |-> 0, side |-> "", amt |-> Whole(0),
     px |-> 0, ro |-> FALSE, txt |-> "", got |-> got]

\* exchange.create_order(symbol, "market", side, amt, px, {reduceOnly: ro})
OrderEv(side, amt, px, ro, ok) ==
    [op |-> "create_order", ok |-> ok, val |-> 0, side |-> side, amt |-> amt,
     px |-> px, ro |-> ro, txt |-> "", got |-> <<>>]

\* notify_discord(txt)
Note(txt) ==
    [op |-> "notify", ok |-> TRUE, val |-> 0, side |-> "", amt |-> Whole(0),
     px |-> 0, ro |-> FALSE, txt |-> txt, got |-> <<>>]

\* ---- decisions of handle_webhook ----------------------------------------
\* price = float(ticker.get("last") or 0.0)
PriceOf(last) == FloatOrZero(last)

\* AfterTicker without the validation of lines 175-177
AfterTickerNoValidation(action) ==
    IF action = FLAT THEN "flat_positions" ELSE "positions"

\* where the code goes once the price is known
AfterTicker(action) ==
    IF action = FLAT THEN "flat_positions"
    ELSE IF action \notin {BUY, SELL} THEN "unknown"
    ELSE "positions"

\* FlatSize without the check of line 153
RECURSIVE FlatSizeAnySymbol(_, _)
FlatSizeAnySymbol(symbol, positions) ==
    IF positions = <<>> THEN 0
    ELSE LET size == FloatOrZero(Head(positions).szi)
         IN  IF size = 0 THEN FlatSizeAnySymbol(symbol, Tail(positions)) ELSE size

\* the FLAT loop: the size of the first entry of the symbol that is not 0,
\* or 0 when the loop ends without one
RECURSIVE FlatSize(_, _)
FlatSize(symbol, positions) ==
    IF positions = <<>> THEN 0
    ELSE LET pos  == Head(positions)
             size == FloatOrZero(pos.szi)
         IN  IF pos.symbol # symbol THEN FlatSize(symbol, Tail(positions))
             ELSE IF size = 0 THEN FlatSize(symbol, Tail(positions))
             ELSE size

\* FlatCloseSide with the sides exchanged
FlatCloseSideSwapped(size) == IF size > 0 THEN "buy" ELSE "sell"

\* close_side = "sell" if size > 0 else "buy"
FlatCloseSide(size) == IF size > 0 THEN "sell" ELSE "buy"

\* Opposes taking every open position for an opposing one
OpposesAnyPosition(action, current_size) == current_size # 0

\* (action == "BUY" and current_size < 0) or (action == "SELL" and current_size > 0)
Opposes(action, current_size) ==
    \/ action = BUY /\ current_size < 0
    \/ action = SELL /\ current_size > 0

\* the BUY/SELL loop from its next entry to its next await: it reaches a
\* close order, the end of the list, or float(None) raising
RECURSIVE ScanOpposing(_, _, _)
ScanOpposing(action, symbol, positions) ==
    IF positions = <<>> THEN [kind |-> "end", size |-> 0, rest |-> <<>>]
    ELSE LET pos == Head(positions) IN
         IF pos.symbol # symbol THEN ScanOpposing(action, symbol, Tail(positions))
         ELSE IF pos.szi = NoNum THEN [kind |-> "raise", size |-> 0, rest |-> <<>>]
         ELSE IF Opposes(action, pos.szi[1])
              THEN [kind |-> "close", size |-> pos.szi[1], rest |-> Tail(positions)]
         ELSE ScanOpposing(action, symbol, Tail(positions))

\* close_side = "buy" if current_size < 0 else "sell"
OpposingCloseSide(current_size) == IF current_size < 0 THEN "buy" ELSE "sell"

\* get_perp_usdc()["free"]
PerpFree(resp) ==
    IF ~resp.numeric THEN 0
    ELSE FloatOrZero(Or(resp.usdcFree, resp.freeUsdc))

\* usdc["free"] <= 0
Insufficient(free) == free <= 0

\* EntrySide with the sides exchanged
EntrySideSwapped(action) == IF action = BUY THEN "sell" ELSE "buy"

\* side = "buy" if action == "BUY" else "sell"
EntrySide(action) == IF action = BUY THEN "buy" ELSE "sell"

\* amount = (usdc["free"] * LEVERAGE) / price if price > 0 else 0
OrderAmount(free, price) ==
    IF price > 0 THEN Frac(free * LEVERAGE, price) ELSE Whole(0)

\* ---- state --------------------------------------------------------------
\* run[r]: the coroutine of request r.
\*   pc      the await it is suspended at ("idle": not yet received,
\*           "done": it returned or raised)
\*   action, symbol, price, free   the locals of those names (free: usdc["free"])
\*   size    the size of the position entry whose close order is awaited
\*   rest    the entries of the BUY/SELL loop not yet visited
\*   data    the body of the request, which the code reads for the last
\*           time at line 135: kept until the first exchange call returns
\*   trace   its exchange calls, sleeps and notifications so far, in order
\*   status  the HTTP status of its response (0: none yet)
\* window: the requests accepted since the last debounce interval ended; the
\*   code keeps no such thing, it is the clock against which debouncing is judged.
VARIABLES run, window

vars == <<run, window>>

\* no body: the request is not received, or its body is no longer read
NoData == [kind |-> "none", secret |-> None, action |-> None, symbol |-> None]

IdleRun ==
    [pc |-> "idle", data |-> NoData, action |-> <<>>, symbol |-> <<>>, price |-> 0, free |-> 0,
     size |-> 0, rest |-> <<>>, trace |-> <<>>, status |-> 0]

Init ==
    /\ run = [r \in Reqs |-> IdleRun]
    /\ window = {}

\* the coroutine s does evs and suspends at pc
Goto(s, evs, pc) == [s EXCEPT !.pc = pc, !.trace = @ \o evs]

\* the coroutine s does evs and ends with an HTTP status; its loop is over
Finish(s, evs, status) ==
    [s EXCEPT !.pc = "done", !.trace = @ \o evs, !.status = status, !.rest = <<>>]

\* Parsed without the check of lines 130-132
ParsedNoAuth(s, p) ==
    IF p.kind # "object" THEN Finish([s EXCEPT !.data = p], <<>>, 400)
    ELSE [s EXCEPT !.pc = "ticker",
                   !.data = p,
                   !.action = ParseAction(p.action),
                   !.symbol = ParseSymbol(p.symbol)]

\* lines 120-136: parse, authenticate, read action and symbol
Parsed(s, p) ==
    IF p.kind # "object" THEN Finish([s EXCEPT !.data = p], <<>>, 400)
    ELSE IF p.secret # TRADINGVIEW_SECRET THEN Finish([s EXCEPT !.data = p], <<>>, 401)
    ELSE [s EXCEPT !.pc = "ticker",
                   !.data = p,
                   !.action = ParseAction(p.action),
                   !.symbol = ParseSymbol(p.symbol)]

Receive(r) ==
    /\ run[r].pc = "idle"
    /\ \E p \in Payloads :
         /\ run' = [run EXCEPT ![r] = Parsed(@, p)]
         /\ window' = IF run'[r].pc = "ticker" THEN window \cup {r} ELSE window

\* the response of r has been sent and its coroutine is gone: r stands for
\* a later request, one that arrives after the window of this one
Forget(r) ==
    /\ run[r].pc = "done"
    /\ r \notin window
    /\ run' = [run EXCEPT ![r] = IdleRun]
    /\ UNCHANGED window

\* the debounce interval ends
WindowExpires ==
    /\ window # {}
    /\ window' = {}
    /\ UNCHANGED run

\* TickerFailed without the raise of line 145
TickerFailedFallsThrough(s) ==
    Goto([s EXCEPT !.data = NoData], <<Ev("fetch_ticker", FALSE, 0), Note("FETCH_TICKER_FAILED")>>,
         IF s.action = FLAT THEN "flat_positions" ELSE "positions")

\* lines 139-145, the failure of fetch_ticker or of float()
TickerFailed(s) ==
    Finish([s EXCEPT !.data = NoData], <<Ev("fetch_ticker", FALSE, 0), Note("FETCH_TICKER_FAILED")>>, 502)

\* lines 139-141 and the dispatch of lines 148 and 175-177
TickerFetched(s, last) ==
    LET price == PriceOf(last)
        ev    == <<Ev("fetch_ticker", TRUE, price)>>
        to    == AfterTicker(s.action)
        s1    == [s EXCEPT !.price = price, !.data = NoData]
    IN  IF to = "unknown" THEN Finish(s1, ev, 400) ELSE Goto(s1, ev, to)

FetchTicker(r) ==
    /\ run[r].pc = "ticker"
    /\ \/ run' = [run EXCEPT ![r] = TickerFailed(@)]
       \/ \E last \in Lasts : run' = [run EXCEPT ![r] = TickerFetched(@, last)]
    /\ UNCHANGED window

\* lines 166-169
FlatFailed(s, evs) == Finish(s, evs \o <<Note("FLAT_FAILED")>>, 500)

\* lines 150-159 and 171-172
FlatPositionsFetched(s, positions) ==
    LET size == FlatSize(s.symbol, positions)
        ev   == <<PosEv(positions)>>
    IN  IF size = 0 THEN Finish(s, ev \o <<Note("FLAT_NO_POSITION")>>, 200)
        ELSE Goto([s EXCEPT !.size = size], ev, "flat_order")

FetchPositionsFlat(r) ==
    /\ run[r].pc = "flat_positions"
    /\ \/ run' = [run EXCEPT ![r] = FlatFailed(@, <<Ev("fetch_positions", FALSE, 0)>>)]
       \/ \E positions \in PosResponses :
            run' = [run EXCEPT ![r] = FlatPositionsFetched(@, positions)]
    /\ UNCHANGED window

\* lines 158-163: the reduce-only order of a FLAT
FlatOrder(s, ok) ==
    OrderEv(FlatCloseSide(s.size), Whole(Abs(s.size)), s.price, TRUE, ok)

\* lines 160-165
FlatOrdered(s, ok) ==
    IF ok THEN Finish(s, <<FlatOrder(s, TRUE), Note("FLAT")>>, 200)
    ELSE FlatFailed(s, <<FlatOrder(s, FALSE)>>)

CreateOrderFlat(r) ==
    /\ run[r].pc = "flat_order"
    /\ \E ok \in BOOLEAN : run' = [run EXCEPT ![r] = FlatOrdered(@, ok)]
    /\ UNCHANGED window

\* lines 202-206
CloseOpposingFailed(s, evs) ==
    Finish(s, evs \o <<Note("CLOSE_OPPOSING_FAILED")>>, 500)

\* lines 183-193, from the next entry of the loop to the next await
ContinueLoop(s, evs, positions) ==
    LET scan == ScanOpposing(s.action, s.symbol, positions)
    IN  IF scan.kind = "raise" THEN CloseOpposingFailed(s, evs)
        ELSE IF scan.kind = "close"
             THEN Goto([s EXCEPT !.size = scan.size, !.rest = scan.rest], evs,
                       "close_order")
        ELSE Goto([s EXCEPT !.rest = <<>>], evs, "balance")

FetchPositions(r) ==
    /\ run[r].pc = "positions"
    /\ \/ run' = [run EXCEPT
                    ![r] = CloseOpposingFailed(@, <<Ev("fetch_positions", FALSE, 0)>>)]
       \/ \E positions \in PosResponses :
            run' = [run EXCEPT
                      ![r] = ContinueLoop(@, <<PosEv(positions)>>, positions)]
    /\ UNCHANGED window

\* lines 192-197: the reduce-only order that closes an opposing position
CloseOrder(s, ok) ==
    OrderEv(OpposingCloseSide(s.size), Whole(Abs(s.size)), s.price, TRUE, ok)

\* CloseOrdered without the sleep of line 200
CloseOrderedNoWait(s, ok) ==
    IF ok THEN ContinueLoop(s, <<CloseOrder(s, TRUE), Note("CLOSED_OPPOSING")>>, s.rest)
    ELSE CloseOpposingFailed(s, <<CloseOrder(s, FALSE)>>)

\* lines 194-200
CloseOrdered(s, ok) ==
    IF ok THEN Goto(s, <<CloseOrder(s, TRUE), Note("CLOSED_OPPOSING")>>, "sleep")
    ELSE CloseOpposingFailed(s, <<CloseOrder(s, FALSE)>>)

CreateOrderClose(r) ==
    /\ run[r].pc = "close_order"
    /\ \E ok \in BOOLEAN : run' = [run EXCEPT ![r] = CloseOrdered(@, ok)]
    /\ UNCHANGED window

\* Slept with a wait that never ends
SleptForever(s) == s

\* line 200, and the loop going on
Slept(s) == ContinueLoop(s, <<Ev("sleep", TRUE, SLEEP_SECS)>>, s.rest)

Sleep(r) ==
    /\ run[r].pc = "sleep"
    /\ run' = [run EXCEPT ![r] = Slept(@)]
    /\ UNCHANGED window

\* get_perp_usdc, lines 94-98: HTTPException(502), nothing else
BalanceFailed(s) == Finish(s, <<Ev("fetch_balance", FALSE, 0)>>, 502)

\* lines 210-217
BalanceFetched(s, resp) ==
    LET free == PerpFree(resp)
        ev   == <<Ev("fetch_balance", TRUE, free)>>
    IN  IF Insufficient(free) THEN Finish([s EXCEPT !.free = free], ev, 400)
        ELSE Goto([s EXCEPT !.free = free], ev, "entry_order")

FetchBalance(r) ==
    /\ run[r].pc = "balance"
    /\ \/ run' = [run EXCEPT ![r] = BalanceFailed(@)]
       \/ \E resp \in BalResponses : run' = [run EXCEPT ![r] = BalanceFetched(@, resp)]
    /\ UNCHANGED window

\* lines 220-226: the entry order
EntryOrder(s, ok) ==
    OrderEv(EntrySide(s.action), OrderAmount(s.free, s.price), s.price, FALSE, ok)

\* lines 223-235
EntryOrdered(s, ok) ==
    IF ok THEN Finish(s, <<EntryOrder(s, TRUE), Note("ENTRY_OK")>>, 200)
    ELSE Finish(s, <<EntryOrder(s, FALSE), Note("ENTRY_FAILED")>>, 500)

CreateOrderEntry(r) ==
    /\ run[r].pc = "entry_order"
    /\ \E ok \in BOOLEAN : run' = [run EXCEPT ![r] = EntryOrdered(@, ok)]
    /\ UNCHANGED window

Next ==
    \/ \E r \in Reqs : Receive(r)
    \/ \E r \in Reqs : FetchTicker(r)
    \/ \E r \in Reqs : FetchPositionsFlat(r)
    \/ \E r \in Reqs : CreateOrderFlat(r)
    \/ \E r \in Reqs : FetchPositions(r)
    \/ \E r \in Reqs : CreateOrderClose(r)
    \/ \E r \in Reqs : Sleep(r)
    \/ \E r \in Reqs : FetchBalance(r)
    \/ \E r \in Reqs : CreateOrderEntry(r)
    \/ \E r \in Reqs : Forget(r)
    \/ WindowExpires

Spec == Init /\ [][Next]_vars

\* One request alone.  The requests share no variable of the program and the
\* exchange answers anything at any time, so what one request can do among
\* others it can do alone.
Step(r) ==
    \/ Receive(r)
    \/ FetchTicker(r)
    \/ FetchPositionsFlat(r)
    \/ CreateOrderFlat(r)
    \/ FetchPositions(r)
    \/ CreateOrderClose(r)
    \/ Sleep(r)
    \/ FetchBalance(r)
    \/ CreateOrderEntry(r)
    \/ Forget(r)

NextOneRun == Step(1) \/ WindowExpires

SpecOneRun == Init /\ [][NextOneRun]_vars

\* what r does once it is received: every await of it returns or raises
Proceed(r) ==
    \/ FetchTicker(r)
    \/ FetchPositionsFlat(r)
    \/ CreateOrderFlat(r)
    \/ FetchPositions(r)
    \/ CreateOrderClose(r)
    \/ Sleep(r)
    \/ FetchBalance(r)
    \/ CreateOrderEntry(r)

\* One request alone, every exchange call and sleep of which ends: the event
\* loop resumes a coroutine whose await has completed.
FairOneRun == SpecOneRun /\ WF_vars(Proceed(1))

\* ---- reading a run ------------------------------------------------------
Trace(r) == run[r].trace

Done(r) == run[r].pc = "done"

\* the run of r has begun: the request passed parsing and authentication
Started(r) == run[r].pc # "idle" /\ ~(Done(r) /\ Trace(r) = <<>>)

\* the price fetch of r has returned and r has not reached its outcome
PastPrice(r) == run[r].pc \notin {"idle", "ticker", "done"}

IsOrder(e) == e.op = "create_order"
IsEntry(e) == IsOrder(e) /\ ~e.ro
IsClose(e) == IsOrder(e) /\ e.ro
IsNote(e)  == e.op = "notify"
IsSleep(e) == e.op = "sleep"
IsBalance(e) == e.op = "fetch_balance"
IsPositions(e) == e.op = "fetch_positions"
IsGateway(e) ==
    e.op \in {"fetch_ticker", "fetch_positions", "fetch_balance", "create_order"}

Where(t, P(_)) == {i \in DOMAIN t : P(t[i])}

\* the entries a positions response holds for a symbol, in order
RECURSIVE EntriesOf(_, _)
EntriesOf(symbol, got) ==
    IF got = <<>> THEN <<>>
    ELSE IF Head(got).symbol = symbol
         THEN <<Head(got).szi>> \o EntriesOf(symbol, Tail(got))
    ELSE EntriesOf(symbol, Tail(got))

\* the position a FLAT reads: the first size of the symbol that is neither
\* None nor 0, and 0 when there is none
RECURSIVE PositionRead(_)
PositionRead(szis) ==
    IF szis = <<>> THEN 0
    ELSE IF Head(szis) = NoNum \/ Head(szis) = Num(0) THEN PositionRead(Tail(szis))
    ELSE Head(szis)[1]

\* the position a BUY or SELL must flatten first: the first size of the
\* symbol that opposes the action, 0 when there is none or a None comes first
RECURSIVE OpposingRead(_, _)
OpposingRead(action, szis) ==
    IF szis = <<>> \/ Head(szis) = NoNum THEN 0
    ELSE LET z == Head(szis)[1] IN
         IF (action = BUY /\ z < 0) \/ (action = SELL /\ z > 0) THEN z
         ELSE OpposingRead(action, Tail(szis))

\* ---- C1 -------------------------------------------------------------------
\* C1: at most one run is in flight at any instant: no request starts its
\* price fetch while another request is between its price fetch and its
\* terminal outcome.
C1_NoStartWhileAnotherRuns ==
    [][\A r2 \in Reqs :
          (run[r2].pc = "idle" /\ run'[r2].pc = "ticker")
              => \A r1 \in Reqs \ {r2} : ~PastPrice(r1)]_vars

\* ---- C2 -------------------------------------------------------------------
\* C2: the signals for one symbol that arrive within one debounce window
\* trigger exactly one run between them.
C2_OneRunPerSymbolPerWindow ==
    \A r1, r2 \in window :
        (Started(r1) /\ Started(r2) /\ run[r1].symbol = run[r2].symbol) => r1 = r2

\* ---- C3 -------------------------------------------------------------------
\* C3: in a BUY or SELL run whose position read opposes the action, the next
\* thing done is a reduce-only order on the closing side for the absolute
\* size; every close order comes before any margin read and any entry order;
\* a margin read after a close order comes after a sleep that follows that
\* order; and an entry order is sized from the margin read just before it.
C3_CloseThenWaitThenSize ==
    \A r \in Reqs :
        LET t == Trace(r) IN
        run[r].action \in {BUY, SELL} =>
          /\ \A i \in Where(t, IsPositions) :
                LET z == OpposingRead(run[r].action, EntriesOf(run[r].symbol, t[i].got))
                IN  (t[i].ok /\ z # 0) =>
                      IF Len(t) = i THEN run[r].pc = "close_order"
                      ELSE /\ IsClose(t[i + 1])
                           /\ t[i + 1].side = (IF run[r].action = BUY THEN "buy" ELSE "sell")
                           /\ t[i + 1].amt = [n |-> Abs(z), d |-> 1]
          /\ \A c \in Where(t, IsClose) :
                /\ \A k \in 1..(c - 1) : ~IsBalance(t[k]) /\ ~IsEntry(t[k])
                /\ \A b \in Where(t, IsBalance) :
                      \E k \in (c + 1)..(b - 1) : IsSleep(t[k]) /\ t[k].val = SLEEP_SECS
          /\ \A j \in Where(t, IsEntry) :
                /\ j > 1
                /\ IsBalance(t[j - 1]) /\ t[j - 1].ok
                /\ t[j].px > 0 => t[j].amt.n * t[j].px = t[j - 1].val * LEVERAGE * t[j].amt.d

\* a BUY that closed a short, slept, read the margin and entered
C3_Witness ==
    \E r \in Reqs :
        LET t == Trace(r) IN
        /\ run[r].action = BUY /\ Done(r) /\ run[r].status = 200
        /\ \E c, k, b, j \in DOMAIN t :
              /\ c < k /\ k < b /\ b < j
              /\ IsClose(t[c]) /\ t[c].ok /\ IsSleep(t[k]) /\ IsBalance(t[b])
              /\ IsEntry(t[j]) /\ t[j].ok /\ t[j].px > 0

\* ---- C4 -------------------------------------------------------------------
\* C4: a FLAT run that reads a nonzero position submits exactly one order,
\* reduce-only, on the side opposite to the position's sign, for its absolute
\* size, and ends with that order's result: no margin read, no entry order.
C4_FlatClosesOnceAndStops ==
    \A r \in Reqs :
        LET t == Trace(r) IN
        run[r].action = FLAT =>
          \A i \in Where(t, IsPositions) :
             LET z == PositionRead(EntriesOf(run[r].symbol, t[i].got))
             IN  (t[i].ok /\ z # 0) =>
                   /\ Where(t, IsBalance) = {} /\ Where(t, IsEntry) = {}
                   /\ IF Len(t) = i THEN run[r].pc = "flat_order"
                      ELSE /\ Done(r)
                           /\ Where(t, IsOrder) = {i + 1}
                           /\ t[i + 1].ro
                           /\ t[i + 1].side = (IF z > 0 THEN "sell" ELSE "buy")
                           /\ t[i + 1].amt = [n |-> Abs(z), d |-> 1]
                           /\ Where(t, IsGateway) \cap ((i + 2)..Len(t)) = {}

\* a FLAT whose close order failed
C4_Witness ==
    \E r \in Reqs :
        LET t == Trace(r) IN
        /\ run[r].action = FLAT /\ Done(r)
        /\ \E i \in Where(t, IsClose) : ~t[i].ok /\ t[i].side = "buy"

\* ---- C5 -------------------------------------------------------------------
\* C5: a FLAT run that reads a zero position, or no entry for its symbol,
\* submits no order, sends the no-position notification and ends.
C5_FlatWithoutPositionIsNoOp ==
    \A r \in Reqs :
        LET t == Trace(r) IN
        run[r].action = FLAT =>
          \A i \in Where(t, IsPositions) :
             (t[i].ok /\ PositionRead(EntriesOf(run[r].symbol, t[i].got)) = 0) =>
                /\ Done(r)
                /\ Where(t, IsOrder) = {}
                /\ Len(t) = i + 1
                /\ t[i + 1] = Note("FLAT_NO_POSITION")

\* a FLAT that found an entry of its own symbol, of size 0
C5_Witness ==
    \E r \in Reqs :
        LET t == Trace(r) IN
        /\ run[r].action = FLAT /\ Done(r) /\ run[r].status = 200
        /\ \E i \in Where(t, IsPositions) :
              /\ t[i].ok
              /\ Num(0) \in {EntriesOf(run[r].symbol, t[i].got)[k] :
                                k \in DOMAIN EntriesOf(run[r].symbol, t[i].got)}
              /\ t[Len(t)] = Note("FLAT_NO_POSITION")

\* ---- C6 -------------------------------------------------------------------
\* C6: a BUY or SELL run that reads a free margin at or below the threshold
\* submits no entry order and sends an insufficient-balance notification.
C6_InsufficientBalanceNotified ==
    \A r \in Reqs :
        LET t == Trace(r) IN
        \A i \in Where(t, IsBalance) :
           (t[i].ok /\ t[i].val <= 0) =>
              /\ Where(t, IsEntry) = {}
              /\ \E k \in (i + 1)..Len(t) : IsNote(t[k])

\* ---- C7 -------------------------------------------------------------------
\* C7: when the price fetch fails the run ends with one failure
\* notification and nothing else: no position fetch, no margin fetch, no
\* order, whatever the action.
C7_PriceFailureAborts ==
    \A r \in Reqs :
        LET t == Trace(r) IN
        \A i \in DOMAIN t :
           (t[i].op = "fetch_ticker" /\ ~t[i].ok) =>
              /\ Done(r)
              /\ i = 1 /\ Len(t) = 2
              /\ t[2] = Note("FETCH_TICKER_FAILED")

\* a BUY whose price fetch failed
C7_Witness ==
    \E r \in Reqs :
        /\ run[r].action = BUY /\ Done(r)
        /\ Trace(r) # <<>> /\ Trace(r)[1].op = "fetch_ticker" /\ ~Trace(r)[1].ok

\* ---- C8 -------------------------------------------------------------------
\* C8: a run whose price is missing or not positive submits no order at
\* all, neither a reduce-only close nor an entry.
C8_NoOrderWithoutPrice ==
    \A r \in Reqs :
        \A i \in Where(Trace(r), IsOrder) : run[r].price > 0

\* ---- C9 -------------------------------------------------------------------
\* C9: every run that has ended has sent exactly one notification.
C9_ExactlyOneNotification ==
    \A r \in Reqs :
        (Started(r) /\ Done(r)) => Cardinality(Where(Trace(r), IsNote)) = 1

\* ---- C10 ------------------------------------------------------------------
\* C10: a failed gateway call ends its run: it is the run's last gateway
\* call, a notification follows it, and the run does not raise to its caller.
C10_FailureEndsRunQuietly ==
    \A r \in Reqs :
        LET t == Trace(r) IN
        \A i \in Where(t, IsGateway) :
           ~t[i].ok =>
              /\ Done(r)
              /\ Where(t, IsGateway) \cap ((i + 1)..Len(t)) = {}
              /\ \E k \in (i + 1)..Len(t) : IsNote(t[k])
              /\ run[r].status < 400

\* ---- C11 ------------------------------------------------------------------
\* C11: submitting a signal does not wait for the trade: the caller has its
\* answer before any gateway call of the run is made.
C11_AnsweredBeforeAnyGatewayCall ==
    \A r \in Reqs :
        Where(Trace(r), IsGateway) # {} => run[r].status # 0

\* ---- C12 ------------------------------------------------------------------
\* the body passes lines 123 and 130
Accepted(d) == d.kind = "object" /\ d.secret = TRADINGVIEW_SECRET

\* the symbol a body names
SymbolSent(d) ==
    IF d.symbol = <<" ", "E", "T", "H", " ">> THEN <<"E", "T", "H">>
    ELSE <<"B", "T", "C">>

\* the action a body names, when it is one of the three
ActionSent(d) ==
    CASE d.action \in {<<"B", "U", "Y">>, <<"b", "u", "y">>} -> <<"B", "U", "Y">>
      [] d.action \in {<<" ", "s", "e", "l", "l">>, <<"S", "E", "L", "L", " ">>}
            -> <<"S", "E", "L", "L">>
      [] d.action \in {<<"f", "l", "a", "t">>, <<"F", "L", "A", "T">>}
            -> <<"F", "L", "A", "T">>
      [] OTHER -> <<>>

C13_NoTwoEntriesFromOneMargin ==
    \A r1, r2 \in Reqs :
        (r1 # r2 /\ run[r1].pc = "entry_order" /\ run[r2].pc = "entry_order")
            => run[r1].free # run[r2].free

\* ---- C14 ------------------------------------------------------------------
\* C14: every entry order is for free * safetyFactor * leverage / price, with
\* the safety factor 0.99, of the margin and price read in its run, and for 0
\* when the price is not positive.
C14_EntrySizedWithSafetyFactor ==
    \A r \in Reqs :
        LET t == Trace(r) IN
        \A j \in Where(t, IsEntry) :
           /\ j > 1 /\ IsBalance(t[j - 1])
           /\ IF t[j].px > 0
              THEN t[j].amt.n * t[j].px * 100 = t[j - 1].val * 99 * LEVERAGE * t[j].amt.d
              ELSE t[j].amt.n = 0

\* ---- C15 ------------------------------------------------------------------
\* C15: a signal whose action is none of BUY, SELL, FLAT fetches no position
\* and no margin and submits no order; its request alone fails, with 400 (or
\* 502 when the price fetch failed).
C15_UnknownActionTradesNothing ==
    \A r \in Reqs :
        LET t == Trace(r) IN
        (Started(r) /\ run[r].action \notin {BUY, SELL, FLAT}) =>
           /\ run[r].pc \in {"ticker", "done"}
           /\ \A i \in DOMAIN t : t[i].op \in {"fetch_ticker", "notify"}
           /\ Done(r) => run[r].status \in {400, 502}

\* a HOLD that got its price and was refused
C15_Witness ==
    \E r \in Reqs :
        /\ run[r].action = <<"H", "O", "L", "D">> /\ Done(r) /\ run[r].status = 400
        /\ Len(Trace(r)) = 1 /\ Trace(r)[1].op = "fetch_ticker" /\ Trace(r)[1].ok

\* ---- C16 ------------------------------------------------------------------
\* the run of r has started and has not ended
Running(r) == run[r].pc \notin {"idle", "done"}

IsPrefix(a, b) == Len(a) <= Len(b) /\ SubSeq(b, 1, Len(a)) = a

\* C16: a run that has started reaches its end when each of its awaits
\* returns or raises, and until then it is never taken back: it only goes on.
C16_EveryRunEnds ==
    /\ \A r \in Reqs : Running(r) ~> Done(r)
    /\ [][\A r \in Reqs :
             Running(r) => /\ run'[r].pc # "idle"
                           /\ IsPrefix(run[r].trace, run'[r].trace)]_vars

\* a SELL that closed a long position, slept, and came to its end
C16_Witness ==
    \E r \in Reqs :
        LET t == Trace(r) IN
        /\ run[r].action = SELL /\ Done(r)
        /\ \E c, k \in DOMAIN t : c < k /\ IsClose(t[c]) /\ IsSleep(t[k])

\* ---- C17 ------------------------------------------------------------------
\* C17: a request that is no JSON object, or whose secret is not the
\* configured one, ends at once with 400 or 401: no exchange call, no order,
\* no notification, and it is in no window.
C17_RejectedWithoutSideEffect ==
    \A r \in Reqs :
        (run[r].data # NoData /\ ~Accepted(run[r].data)) =>
           /\ Done(r)
           /\ Trace(r) = <<>>
           /\ run[r].status = (IF run[r].data.kind = "object" THEN 401 ELSE 400)
           /\ r \notin window

\* a BUY without a secret, refused
C17_Witness ==
    \E r \in Reqs :
        /\ run[r].data.kind = "object" /\ run[r].data.secret = None
        /\ run[r].data.action = <<"B", "U", "Y">>
        /\ Done(r) /\ run[r].status = 401

\* ---- C18 ------------------------------------------------------------------
\* every size of the sequence is a number that does not oppose the action
RECURSIVE NoneOpposes(_, _)
NoneOpposes(action, szis) ==
    \/ szis = <<>>
    \/ /\ Head(szis) # NoNum
       /\ ~(action = BUY /\ Head(szis)[1] < 0)
       /\ ~(action = SELL /\ Head(szis)[1] > 0)
       /\ NoneOpposes(action, Tail(szis))

\* C18: a BUY or SELL run whose position read is zero or on its own side
\* submits no reduce-only order and does not sleep; the margin read comes
\* next, and when the margin is sufficient one entry order on its side follows.
C18_NoCloseWithoutOpposingPosition ==
    \A r \in Reqs :
        LET t == Trace(r) IN
        run[r].action \in {BUY, SELL} =>
          \A i \in Where(t, IsPositions) :
             (t[i].ok /\ NoneOpposes(run[r].action, EntriesOf(run[r].symbol, t[i].got))) =>
                /\ Where(t, IsClose) = {} /\ Where(t, IsSleep) = {}
                /\ IF Len(t) = i THEN run[r].pc = "balance"
                   ELSE /\ IsBalance(t[i + 1])
                        /\ (t[i + 1].ok /\ t[i + 1].val > 0) =>
                              IF Len(t) = i + 1 THEN run[r].pc = "entry_order"
                              ELSE /\ IsEntry(t[i + 2])
                                   /\ t[i + 2].side =
                                         (IF run[r].action = BUY THEN "buy" ELSE "sell")
                                   /\ Where(t, IsOrder) = {i + 2}

\* a BUY over a long position of 2 that entered again
C18_Witness ==
    \E r \in Reqs :
        LET t == Trace(r) IN
        /\ run[r].action = BUY /\ Done(r) /\ run[r].status = 200
        /\ \E i \in Where(t, IsPositions) :
              /\ t[i].ok /\ EntriesOf(run[r].symbol, t[i].got) = <<Num(2)>>
              /\ Len(t) >= i + 2 /\ IsEntry(t[i + 2]) /\ t[i + 2].ok

\* ---- C19 ------------------------------------------------------------------
\* C19: a run submits at most one order that is not reduce-only, only for
\* BUY or SELL, on the side of its action; a FLAT run submits none.
C19_OneEntryOnTheActionsSide ==
    \A r \in Reqs :
        LET t == Trace(r) IN
        /\ Cardinality(Where(t, IsEntry)) <= 1
        /\ \A j \in Where(t, IsEntry) :
              \/ run[r].action = BUY /\ t[j].side = "buy"
              \/ run[r].action = SELL /\ t[j].side = "sell"

\* a SELL whose entry order failed
C19_Witness ==
    \E r \in Reqs :
        LET t == Trace(r) IN
        /\ run[r].action = SELL /\ Done(r) /\ run[r].status = 500
        /\ \E j \in Where(t, IsEntry) : ~t[j].ok /\ t[j].side = "sell"

====
